---- MODULE Spec2Model ----
(***************************************************************************)
(* Index-file synchronization of the Zen Space plugin (src/main.ts):       *)
(* ZenSpacePlugin.createIndexFile, updateIndexFileContent,                 *)
(* getAllFilesInFolder and the vault event handlers that start them;       *)
(* BaseFileCreator.createBaseFile (src/src/create-base.ts); and the        *)
(* operations of ZenSpaceView that write settings.pinnedItems.             *)
(*                                                                         *)
(* The vault is a fixed set of folders, each with an ordered list of file  *)
(* entries (TFolder.children restricted to TFile).  An Index.md is a file  *)
(* like any other; its text is kept in `index`.  A document is held in     *)
(* parsed form: the frontmatter as the ordered list of its fields and the  *)
(* body as heading, flat list and subsections, so that two documents are   *)
(* equal exactly when the texts the templates produce are equal.           *)
(*                                                                         *)
(* An async function is a run: a record of its locals and the await it is  *)
(* suspended at.  Everything between two awaits is one atomic step.        *)
(***************************************************************************)
EXTENDS Integers, Sequences, FiniteSets, TLC

(***************************************************************************)
(* Bounds of the model.                                                    *)
(***************************************************************************)
MaxEvents == 3
MaxPinOps == 2
MaxChildren == 3

(***************************************************************************)
(* Strings.  JavaScript compares strings by UTF-16 code unit.              *)
(***************************************************************************)
CharCode(c) ==
    CASE c = "." -> 46
      [] c = "/" -> 47
      [] c = "A" -> 65
      [] c = "B" -> 66
      [] c = "I" -> 73
      [] c = "R" -> 82
      [] c = "S" -> 83
      [] c = "a" -> 97
      [] c = "b" -> 98
      [] c = "c" -> 99
      [] c = "d" -> 100
      [] c = "e" -> 101
      [] c = "m" -> 109
      [] c = "n" -> 110
      [] c = "s" -> 115
      [] c = "v" -> 118
      [] c = "x" -> 120

CharAt(s, i) == SubSeq(s, i, i)

RECURSIVE StrLessFrom(_, _, _)
StrLessFrom(s, t, i) ==
    IF i > Len(t) THEN FALSE
    ELSE IF i > Len(s) THEN TRUE
    ELSE IF CharAt(s, i) = CharAt(t, i) THEN StrLessFrom(s, t, i + 1)
    ELSE CharCode(CharAt(s, i)) < CharCode(CharAt(t, i))

\* s < t in the order Array.prototype.sort() uses without a comparator
StrLess(s, t) == StrLessFrom(s, t, 1)

EndsWith(s, suffix) ==
    /\ Len(s) >= Len(suffix)
    /\ SubSeq(s, Len(s) - Len(suffix) + 1, Len(s)) = suffix

\* name.replace(/\.md$/, "")
StripMd(name) ==
    IF EndsWith(name, ".md") THEN SubSeq(name, 1, Len(name) - 3) ELSE name

RECURSIVE LastSlash(_, _)
LastSlash(s, i) ==
    IF i = 0 THEN 0
    ELSE IF CharAt(s, i) = "/" THEN i
    ELSE LastSlash(s, i - 1)

\* path.split("/").pop()
LastSegment(path) == SubSeq(path, LastSlash(path, Len(path)) + 1, Len(path))

RECURSIVE CountSlashes(_, _)
CountSlashes(s, i) ==
    IF i = 0 THEN 0
    ELSE (IF CharAt(s, i) = "/" THEN 1 ELSE 0) + CountSlashes(s, i - 1)

\* path.split("/").length
SplitLength(path) == CountSlashes(path, Len(path)) + 1

RECURSIVE Insert(_, _)
Insert(sorted, s) ==
    IF sorted = <<>> THEN <<s>>
    ELSE IF StrLess(s, Head(sorted)) THEN <<s>> \o sorted
    ELSE <<Head(sorted)>> \o Insert(Tail(sorted), s)

RECURSIVE Sort(_)
\* Array.prototype.sort() on strings
Sort(seq) == IF seq = <<>> THEN <<>> ELSE Insert(Sort(Tail(seq)), Head(seq))

RECURSIVE Unique(_)
\* [...new Set(seq)]: first occurrences, in order
Unique(seq) ==
    IF seq = <<>> THEN <<>>
    ELSE LET init == Unique(SubSeq(seq, 1, Len(seq) - 1))
             last == seq[Len(seq)]
         IN  IF \E i \in 1..Len(init) : init[i] = last THEN init
             ELSE Append(init, last)

Range(seq) == {seq[i] : i \in 1..Len(seq)}

RECURSIVE Flatten(_)
Flatten(seqs) == IF seqs = <<>> THEN <<>> ELSE Head(seqs) \o Flatten(Tail(seqs))

(***************************************************************************)
(* The vault.  A TFile is [basename, extension]; TFile.name is             *)
(* basename.extension.  A TFolder is identified by its path.               *)
(***************************************************************************)
\* every folder path a vault of the model can hold, parents before children;
\* "" is the vault root.  The folders a vault holds are DOMAIN tree.
FolderList == <<"", "R", "R/S", "R/S/T", "R/Sx">>

\* the folders of the vault the synchronizer is checked on
Folders == {"R", "R/S"}

\* folder.parent.path of a folder or file other than the root
ParentPath(path) ==
    IF LastSlash(path, Len(path)) = 0 THEN ""
    ELSE SubSeq(path, 1, LastSlash(path, Len(path)) - 1)

\* folder.children restricted to TFolder, in children order
SubfoldersOf(folder, tree) ==
    SelectSeq(FolderList,
              LAMBDA p : p # "" /\ p \in DOMAIN tree /\ ParentPath(p) = folder)

TFile(basename, extension) == [basename |-> basename, extension |-> extension]
FileName(file) == file.basename \o "." \o file.extension

IndexFile == TFile("Index", "md")

\* the files a user creates or renames to
UserFiles == {TFile("a", "md"), TFile("B", "md"), TFile("a", "canvas")}

\* `${folder.path}/Index.md`
IndexPath(folder) == folder \o "/Index.md"

\* file.path: an entry of the root has no leading slash
FilePath(folder, file) ==
    IF folder = "" THEN FileName(file) ELSE folder \o "/" \o FileName(file)

\* Eligible without the comparison of the name
EligibleByExtension(file) == file.extension = "md"

\* file.extension === "md" && file.name !== "Index.md"
Eligible(file) == file.extension = "md" /\ FileName(file) # "Index.md"

\* files.filter(eligible).map(file => file.name.replace(/\.md$/, ""))
EligibleNames(files) ==
    LET kept == SelectSeq(files, Eligible)
    IN  [i \in 1..Len(kept) |-> StripMd(FileName(kept[i]))]

\* Map.prototype.set: an existing key keeps its place
MapSet(map, path, files) ==
    IF \E i \in 1..Len(map) : map[i].path = path
    THEN [i \in 1..Len(map) |->
            IF map[i].path = path THEN [path |-> path, files |-> files] ELSE map[i]]
    ELSE Append(map, [path |-> path, files |-> files])

RECURSIVE MapSetAll(_, _)
MapSetAll(map, entries) ==
    IF entries = <<>> THEN map
    ELSE MapSetAll(MapSet(map, Head(entries).path, Head(entries).files), Tail(entries))

RECURSIVE GetAllFilesInFolder(_, _, _)
RECURSIVE ScanSubfolders(_, _, _, _)
ScanSubfolders(subs, tree, includeSubfolders, map) ==
    IF subs = <<>> THEN map
    ELSE LET child == Head(subs)
             subfolderFiles == GetAllFilesInFolder(child, tree, includeSubfolders)
             withChild == MapSet(map, child, subfolderFiles.files)
         IN  ScanSubfolders(Tail(subs), tree, includeSubfolders,
                            MapSetAll(withChild, subfolderFiles.subfolders))

GetAllFilesInFolder(folder, tree, includeSubfolders) ==
    [files |-> tree[folder],
     subfolders |-> IF includeSubfolders
                    THEN ScanSubfolders(SubfoldersOf(folder, tree), tree, includeSubfolders, <<>>)
                    ELSE <<>>]

\* CurrentFolderFiles without the sort
CurrentFolderFilesUnsorted(files) == EligibleNames(files)

\* files.filter(...).map(...).sort()
CurrentFolderFiles(files) == Sort(EligibleNames(files))

\* UniqueFiles without the Set
UniqueFilesNoSet(currentFolderFiles, subfolders) ==
    Sort(currentFolderFiles
         \o Flatten([i \in 1..Len(subfolders) |-> EligibleNames(subfolders[i].files)]))

\* [...new Set(allFiles)].sort()
UniqueFiles(currentFolderFiles, subfolders) ==
    LET allFiles == currentFolderFiles
                    \o Flatten([i \in 1..Len(subfolders) |-> EligibleNames(subfolders[i].files)])
    IN  Sort(Unique(allFiles))

(***************************************************************************)
(* Documents.  A frontmatter field is [key, str, lf]: a scalar field has   *)
(* its text in str and lf = <<>>; the longform field has str = "" and the  *)
(* block in lf.  NoDoc is the content of a path that holds no document.    *)
(***************************************************************************)
NoDoc == <<>>

Scalar(key, str) == [key |-> key, str |-> str, lf |-> <<>>]
Block(key, longform) == [key |-> key, str |-> "", lf |-> <<longform>>]

HasField(fm, key) == \E i \in 1..Len(fm) : fm[i].key = key
Field(fm, key) == fm[CHOOSE i \in 1..Len(fm) : fm[i].key = key]

\* frontmatter[key] = value: a present key keeps its place, a new one goes last
SetField(fm, entry) ==
    IF HasField(fm, entry.key)
    THEN [i \in 1..Len(fm) |-> IF fm[i].key = entry.key THEN entry ELSE fm[i]]
    ELSE Append(fm, entry)

\* today.toISOString().split("T")[0]
FormattedDate(day) == "2025-01-" \o ToString(10 + day)

\* this.settings.useGridLayoutForIndex ? "zen-grid" : ""
CssClass(useGridLayoutForIndex) == IF useGridLayoutForIndex THEN "zen-grid" ELSE ""

NewLongform(folderName, uniqueFiles) ==
    [format |-> "scenes", title |-> folderName, workflow |-> "Default Workflow",
     sceneFolder |-> "/", scenes |-> uniqueFiles, ignoredFiles |-> <<"Index">>]

\* Sections without the filter(Boolean)
SectionsWithEmpty(folder, subfolders, includeSubfolders) ==
    IF includeSubfolders
    THEN [i \in 1..Len(subfolders) |->
            [level |-> (SplitLength(subfolders[i].path) - SplitLength(folder)) + 1,
             label |-> LastSegment(subfolders[i].path),
             names |-> Sort(EligibleNames(subfolders[i].files))]]
    ELSE <<>>

\* the subsections of the body: one per subfolder with an eligible file
Sections(folder, subfolders, includeSubfolders) ==
    IF includeSubfolders
    THEN LET all == [i \in 1..Len(subfolders) |->
                       [level |-> (SplitLength(subfolders[i].path) - SplitLength(folder)) + 1,
                        label |-> LastSegment(subfolders[i].path),
                        names |-> Sort(EligibleNames(subfolders[i].files))]]
         IN  SelectSeq(all, LAMBDA sec : Len(sec.names) > 0)
    ELSE <<>>

Body(folder, currentFolderFiles, subfolders, includeSubfolders) ==
    [heading |-> LastSegment(folder),
     flat |-> currentFolderFiles,
     subs |-> Sections(folder, subfolders, includeSubfolders)]

\* the text createIndexFile builds with useLongformTemplate
LongformTemplate(folder, cssClass, formattedDate, currentFolderFiles, subfolders, includeSubfolders) ==
    [fm |-> << Scalar("cssclass", cssClass),
               Block("longform", NewLongform(LastSegment(folder),
                                             UniqueFiles(currentFolderFiles, subfolders))),
               Scalar("created", formattedDate),
               Scalar("updated", formattedDate) >>,
     body |-> Body(folder, currentFolderFiles, subfolders, includeSubfolders)]

\* the text createIndexFile builds without it, and the newContent of
\* updateIndexFileContent
SimpleTemplate(folder, cssClass, formattedDate, currentFolderFiles, subfolders, includeSubfolders) ==
    [fm |-> << Scalar("cssclass", cssClass),
               Scalar("title", LastSegment(folder)),
               Scalar("created", formattedDate),
               Scalar("updated", formattedDate) >>,
     body |-> Body(folder, currentFolderFiles, subfolders, includeSubfolders)]

\* the callback updateIndexFileContent hands to processFrontMatter
FrontMatterCallback(fm, folder, cssClass, formattedDate, currentFolderFiles, subfolders, useLongformTemplate) ==
    LET dated == SetField(SetField(fm, Scalar("updated", formattedDate)),
                          Scalar("cssclass", cssClass))
        uniqueFiles == UniqueFiles(currentFolderFiles, subfolders)
    IN  IF ~useLongformTemplate THEN dated
        ELSE IF ~HasField(dated, "longform")
        THEN SetField(dated, Block("longform", NewLongform(LastSegment(folder), uniqueFiles)))
        ELSE SetField(dated,
                      Block("longform",
                            [Field(dated, "longform").lf[1] EXCEPT !.scenes = uniqueFiles]))

(***************************************************************************)
(* State.                                                                  *)
(*   tree      folder path -> folder.children restricted to TFile          *)
(*   index     folder path -> content of <path>/Index.md, NoDoc if absent  *)
(*   base      folder path -> content of <path>/<name>.base, NoDoc if      *)
(*             absent                                                      *)
(*   settings  ZenSpaceSettings: the four fields the synchronizer reads,   *)
(*             pinnedItems, and the fields the view reads                  *)
(*   clock     the day new Date() returns                                  *)
(*   runs      the createIndexFile / updateIndexFileContent calls that are *)
(*             suspended at an await                                       *)
(*   events    how many things the user has done: folder activations,      *)
(*             changes of the vault and of the settings; a change of date  *)
(*             counts as one                                               *)
(* History, read by the properties only:                                   *)
(*   lastOp    the run that ended or the operation of the view or of       *)
(*             createBaseFile that was called in the last step, Idle after *)
(*             any other; for an operation of the view, folder is the path *)
(*             of the entry, arg the name entered and pinned the           *)
(*             pinnedItems before the step                                 *)
(*   view      the fields of the ZenSpaceView: leaf (a leaf of the          *)
(*             workspace shows the view), folder (a path), folderHistory,  *)
(*             historyIndex (from 0, -1 for none), the disabled flags of   *)
(*             the Back and Forward buttons, currentSortBy,                *)
(*             currentSortOrder and shown (the entries of the list, top    *)
(*             level, in the order displayed)                              *)
(*   children  folder.children of the folder the view displays, in the     *)
(*             order the host keeps them, each with its stat; followed     *)
(*             where the list of the view is, empty elsewhere              *)
(* and in each run: isolated (no step but its own was taken since the call *)
(* began), pre (the content when the call began, kept while isolated) and  *)
(* fresh (the call began right after an isolated synchronization of the    *)
(* same folder ended), absent (the folder held no Index.md when the call   *)
(* began) and writes (the storage writes the call has issued, in order).   *)
(***************************************************************************)
VARIABLES tree, index, base, settings, clock, runs, events, lastOp, view, children

vars == <<tree, index, base, settings, clock, runs, events, lastOp, view, children>>

DEFAULT_SETTINGS ==
    [createIndexFile |-> TRUE, useLongformTemplate |-> TRUE,
     includeSubfolders |-> TRUE, includeCanvasFiles |-> TRUE,
     includeOtherFormats |-> TRUE, defaultSortBy |-> "filename",
     defaultSortOrder |-> "asc", pinnedItems |-> <<>>, useGridLayoutForIndex |-> TRUE]

\* the toggles of the settings tab that the synchronizer reads
SettingNames ==
    {"createIndexFile", "useLongformTemplate", "includeSubfolders", "useGridLayoutForIndex"}

\* the fields of a ZenSpaceView as its constructor leaves them, for the root
\* of the vault, before a leaf shows it
ClosedView ==
    [leaf |-> FALSE, folder |-> "", folderHistory |-> <<>>, historyIndex |-> -1,
     backDisabled |-> TRUE, forwardDisabled |-> TRUE,
     currentSortBy |-> DEFAULT_SETTINGS.defaultSortBy,
     currentSortOrder |-> DEFAULT_SETTINGS.defaultSortOrder,
     shown |-> <<>>]

Op(op, folder) ==
    [op |-> op, folder |-> folder, pre |-> NoDoc, isolated |-> FALSE, fresh |-> FALSE,
     notice |-> "", kind |-> "", viaCreate |-> FALSE, useLongform |-> FALSE,
     formattedDate |-> "", absent |-> FALSE, writes |-> <<>>, arg |-> "",
     pinned |-> <<>>, view |-> ClosedView]

Idle == Op("", "")

RunOp(op, run, notice) ==
    [op |-> op, folder |-> run.folder, pre |-> run.pre, isolated |-> run.isolated,
     fresh |-> run.isolated /\ run.fresh, notice |-> notice,
     kind |-> run.kind, viaCreate |-> run.viaCreate, useLongform |-> run.useLongform,
     formattedDate |-> run.formattedDate, absent |-> run.absent, writes |-> run.writes,
     arg |-> "", pinned |-> <<>>, view |-> ClosedView]

Init ==
    /\ tree = [f \in Folders |-> <<>>]
    /\ index = [f \in Folders |-> NoDoc]
    /\ base = [f \in Folders |-> NoDoc]
    /\ settings = DEFAULT_SETTINGS
    /\ clock = 0
    /\ runs = <<>>
    /\ events = 0
    /\ lastOp = Idle
    /\ view = ClosedView
    /\ children = <<>>

Holds(files, file) == \E i \in 1..Len(files) : files[i] = file
Remove(files, file) == SelectSeq(files, LAMBDA f : f # file)

\* IndexExists without the lookup
IndexExistsNever(folder) == FALSE

\* this.app.vault.getAbstractFileByPath(indexPath) instanceof TFile: the
\* entry whose path is the string looked up
IndexExists(folder) ==
    \E i \in 1..Len(tree[folder]) : FilePath(folder, tree[folder][i]) = IndexPath(folder)

Disturbed(rs) ==
    [i \in 1..Len(rs) |-> [rs[i] EXCEPT !.isolated = FALSE, !.pre = NoDoc, !.fresh = FALSE]]
DisturbedBut(rs, i) ==
    [j \in 1..Len(rs) |-> IF j = i THEN rs[j] ELSE Disturbed(rs)[j]]
Without(rs, i) == SubSeq(rs, 1, i - 1) \o SubSeq(rs, i + 1, Len(rs))

NewRun(kind, viaCreate, folder, pc) ==
    [kind |-> kind, viaCreate |-> viaCreate, folder |-> folder, pc |-> pc,
     currentFolderFiles |-> <<>>, subfolders |-> <<>>, formattedDate |-> "",
     cssClass |-> "", content |-> NoDoc, useLongform |-> FALSE,
     pre |-> index[folder], isolated |-> TRUE, fresh |-> FALSE,
     absent |-> index[folder] = NoDoc, writes |-> <<>>, caller |-> ""]

\* UpdateIndexFileContent without the return for a missing Index.md
UpdateIndexFileContentNoCheck(folder, viaCreate, t) ==
    <<NewRun("update", viaCreate, folder, "read")>>

\* updateIndexFileContent up to its first await: no run when there is no
\* Index.md, else a run suspended at vault.read
UpdateIndexFileContent(folder, viaCreate, t) ==
    IF \E i \in 1..Len(t[folder]) : FilePath(folder, t[folder][i]) = IndexPath(folder)
    THEN <<NewRun("update", viaCreate, folder, "read")>>
    ELSE <<>>

\* a step of the user
UserChange ==
    /\ events < MaxEvents
    /\ events' = events + 1
    /\ lastOp' = Idle

\* the last step ended an isolated synchronization of folder
JustSynced(folder) ==
    /\ lastOp.op \in {"createDone", "updateDone"}
    /\ lastOp.folder = folder
    /\ lastOp.isolated

\* createIndexFile up to its first await; caller is "openInZenSpace" when
\* openInZenSpace awaits it, "" when nothing does
StartCreateIndexFile(folder, caller) ==
    /\ IF IndexExists(folder)
       THEN runs' = Disturbed(runs)
                    \o [i \in {1} |-> [UpdateIndexFileContent(folder, TRUE, tree)[1] EXCEPT
                                          !.fresh = JustSynced(folder),
                                          !.caller = caller]]
       ELSE LET scan == GetAllFilesInFolder(folder, tree, settings.includeSubfolders)
                currentFolderFiles == CurrentFolderFiles(scan.files)
                cssClass == CssClass(settings.useGridLayoutForIndex)
                formattedDate == FormattedDate(clock)
                content ==
                    IF settings.useLongformTemplate
                    THEN LongformTemplate(folder, cssClass, formattedDate, currentFolderFiles,
                                          scan.subfolders, settings.includeSubfolders)
                    ELSE SimpleTemplate(folder, cssClass, formattedDate, currentFolderFiles,
                                        scan.subfolders, settings.includeSubfolders)
            IN  runs' = Append(Disturbed(runs),
                               [NewRun("create", TRUE, folder, "create") EXCEPT
                                   !.currentFolderFiles = currentFolderFiles,
                                   !.subfolders = scan.subfolders,
                                   !.formattedDate = formattedDate,
                                   !.cssClass = cssClass,
                                   !.useLongform = settings.useLongformTemplate,
                                   !.content = <<content>>,
                                   !.writes = <<"create">>,
                                   !.caller = caller])

\* a call of createIndexFile with the setting on
CreateIndexFile(folder) ==
    /\ settings.createIndexFile
    /\ StartCreateIndexFile(folder, "")
    /\ UserChange
    /\ UNCHANGED <<base, tree, index, settings, clock, view, children>>

(***************************************************************************)
(* The folder the view displays and its history.                           *)
(***************************************************************************)
\* updateNavButtons, and the disabled flags onOpen gives the two buttons
UpdateNavButtons(v) ==
    [v EXCEPT !.backDisabled = v.historyIndex <= 0,
              !.forwardDisabled = v.historyIndex >= Len(v.folderHistory) - 1]

\* the end of openInZenSpace: the leaf of the view type if there is one, else
\* a new leaf with a new view; view.folder = folder; view.onOpen()
OpenLeaf(folder) ==
    UpdateNavButtons([(IF view.leaf
                       THEN view
                       ELSE [ClosedView EXCEPT
                                !.currentSortBy = settings.defaultSortBy,
                                !.currentSortOrder = settings.defaultSortOrder])
                      EXCEPT !.leaf = TRUE, !.folder = folder])

\* the view after the run has ended: its caller goes on
Resumed(run) == IF run.caller = "openInZenSpace" THEN OpenLeaf(run.folder) ELSE view

\* slice without the cut
SliceAll(s, start, end) == s

\* Array.prototype.slice(start, end), for 0 <= start <= end
Slice(s, start, end) == SubSeq(s, start + 1, IF end > Len(s) THEN Len(s) ELSE end)

\* a call of the view or of the plugin that displays a folder
NavStep(op, folder) ==
    /\ events < MaxEvents
    /\ events' = events + 1
    /\ lastOp' = [Op(op, folder) EXCEPT !.view = view]

\* navigateToFolder, from the breadcrumbs, the list or a menu of the view
NavigateToFolder(folder) ==
    /\ view.leaf
    /\ LET new == view.historyIndex = -1 \/ view.folder # folder
           folderHistory == IF new
                            THEN Append(Slice(view.folderHistory, 0, view.historyIndex + 1),
                                        folder)
                            ELSE view.folderHistory
       IN  view' = UpdateNavButtons(
                      [view EXCEPT !.folderHistory = folderHistory,
                                   !.historyIndex = IF new THEN Len(folderHistory) - 1 ELSE @,
                                   !.folder = folder])
    /\ IF settings.createIndexFile
       THEN StartCreateIndexFile(folder, "")
       ELSE UNCHANGED runs
    /\ NavStep("navigateToFolder", folder)
    /\ UNCHANGED <<base, tree, index, settings, clock, children>>

\* a click on the Back button
Back ==
    /\ view.leaf
    /\ view.historyIndex > 0
    /\ view' = UpdateNavButtons(
                  [view EXCEPT !.historyIndex = @ - 1,
                               !.folder = view.folderHistory[view.historyIndex]])
    /\ lastOp' = [Op("back", view.folder) EXCEPT !.view = view]
    /\ UNCHANGED <<base, tree, index, settings, clock, runs, events, children>>

\* a click on the Forward button
Forward ==
    /\ view.leaf
    /\ view.historyIndex < Len(view.folderHistory) - 1
    /\ view' = UpdateNavButtons(
                  [view EXCEPT !.historyIndex = @ + 1,
                               !.folder = view.folderHistory[view.historyIndex + 2]])
    /\ lastOp' = [Op("forward", view.folder) EXCEPT !.view = view]
    /\ UNCHANGED <<base, tree, index, settings, clock, runs, events, children>>

\* openInZenSpace, from the ribbon, a command or the file menu: with the
\* setting on it awaits createIndexFile and goes on when that run ends
OpenInZenSpace(folder) ==
    /\ IF settings.createIndexFile
       THEN /\ StartCreateIndexFile(folder, "openInZenSpace")
            /\ UNCHANGED view
       ELSE /\ view' = OpenLeaf(folder)
            /\ UNCHANGED runs
    /\ NavStep("openInZenSpace", folder)
    /\ UNCHANGED <<base, tree, index, settings, clock, children>>

\* what a finished or abandoned run leaves in the history
Ended(i, op, notice) ==
    /\ runs' = Disturbed(Without(runs, i))
    /\ lastOp' = RunOp(op, runs[i], notice)

\* new Notice(`Updated Index file in ${folderName}`), createIndexFile line 1685
UpdatedNotice(run) == IF run.viaCreate THEN "Updated Index file" ELSE ""

\* vault.read resolves: scan the folder, take the date, call processFrontMatter
ReadDone(i) ==
    /\ i \in 1..Len(runs)
    /\ runs[i].pc = "read"
    /\ LET run == runs[i]
           scan == GetAllFilesInFolder(run.folder, tree, settings.includeSubfolders)
       IN  runs' = [DisturbedBut(runs, i) EXCEPT
                      ![i].pc = "frontmatter",
                      ![i].writes = Append(@, "frontmatter"),
                      ![i].currentFolderFiles = CurrentFolderFiles(scan.files),
                      ![i].subfolders = scan.subfolders,
                      ![i].formattedDate = FormattedDate(clock),
                      ![i].cssClass = CssClass(settings.useGridLayoutForIndex)]
    /\ lastOp' = Idle
    /\ UNCHANGED <<base, tree, index, settings, clock, events, view, children>>

\* a storage call of updateIndexFileContent throws: console.error, return
UpdateFail(i) ==
    /\ i \in 1..Len(runs)
    /\ runs[i].pc \in {"read", "frontmatter", "modify"}
    /\ Ended(i, runs[i].pc \o "Failed", UpdatedNotice(runs[i]))
    /\ view' = Resumed(runs[i])
    /\ UNCHANGED <<base, tree, index, settings, clock, events, children>>

\* processFrontMatter resolves: the host has rewritten the frontmatter of the
\* file; build newContent and call vault.modify
\* newContent with the updated date of the document as it is
NewContentOldDate(run, includeSubfolders) ==
    LET new == SimpleTemplate(run.folder, run.cssClass, run.formattedDate,
                              run.currentFolderFiles, run.subfolders, includeSubfolders)
    IN  [new EXCEPT !.fm = SetField(@, Field(index[run.folder][1].fm, "updated"))]

NewContent(run, includeSubfolders) ==
    SimpleTemplate(run.folder, run.cssClass, run.formattedDate,
                   run.currentFolderFiles, run.subfolders, includeSubfolders)

FrontMatterDone(i) ==
    /\ i \in 1..Len(runs)
    /\ runs[i].pc = "frontmatter"
    /\ LET run == runs[i]
           doc == index[run.folder][1]
           fm == FrontMatterCallback(doc.fm, run.folder, run.cssClass, run.formattedDate,
                                     run.currentFolderFiles, run.subfolders,
                                     settings.useLongformTemplate)
       IN  /\ index' = [index EXCEPT ![run.folder] = <<[doc EXCEPT !.fm = fm]>>]
           /\ runs' = [DisturbedBut(runs, i) EXCEPT
                         ![i].pc = "modify",
                         ![i].writes = Append(@, "modify"),
                         ![i].useLongform = settings.useLongformTemplate,
                         ![i].content = <<NewContent(run, settings.includeSubfolders)>>]
    /\ lastOp' = Idle
    /\ UNCHANGED <<base, tree, settings, clock, events, view, children>>

\* vault.modify resolves
ModifyDone(i) ==
    /\ i \in 1..Len(runs)
    /\ runs[i].pc = "modify"
    /\ index' = [index EXCEPT ![runs[i].folder] = runs[i].content]
    /\ Ended(i, "updateDone", UpdatedNotice(runs[i]))
    /\ view' = Resumed(runs[i])
    /\ UNCHANGED <<base, tree, settings, clock, events, children>>

\* Triggers without the test of the name
TriggersAnyMd(file) == file.extension = "md"

\* Triggers without any test of the file
TriggersAnyFile(file) == TRUE

\* the guard of the three handlers
Triggers(file) == file.extension = "md" /\ FileName(file) # "Index.md"

\* the Notice of the catch of createIndexFile, without the one for an error
\* whose message has "already exists"
CreateErrorNoticeAlways(alreadyExists) == "Error creating Index file"

\* the Notice of the catch of createIndexFile; "" is no Notice
CreateErrorNotice(alreadyExists) ==
    IF alreadyExists THEN "" ELSE "Error creating Index file"

\* vault.create resolves, or rejects because the folder has an Index.md
CreateDone(i) ==
    /\ i \in 1..Len(runs)
    /\ runs[i].pc = "create"
    /\ LET run == runs[i]
       IN  IF Holds(tree[run.folder], IndexFile)
           THEN /\ UNCHANGED <<tree, index>>
                /\ Ended(i, "createExists", CreateErrorNotice(TRUE))
           ELSE /\ tree' = [tree EXCEPT ![run.folder] = Append(@, IndexFile)]
                /\ index' = [index EXCEPT ![run.folder] = run.content]
                /\ lastOp' = RunOp("createDone", run, "Created Index file")
                \* the create event of the Index.md reaches the create handler
                /\ runs' = Disturbed(Without(runs, i))
                           \o (IF Triggers(IndexFile)
                               THEN UpdateIndexFileContent(run.folder, FALSE, tree')
                               ELSE <<>>)
    /\ view' = Resumed(runs[i])
    /\ UNCHANGED <<base, settings, clock, events, children>>

\* vault.create rejects for another reason
CreateFail(i) ==
    /\ i \in 1..Len(runs)
    /\ runs[i].pc = "create"
    /\ Ended(i, "createFailed", CreateErrorNotice(FALSE))
    /\ view' = Resumed(runs[i])
    /\ UNCHANGED <<base, tree, index, settings, clock, events, children>>

(***************************************************************************)
(* BaseFileCreator.createBaseFile (src/src/create-base.ts).  The content   *)
(* of a base file is the one value the template depends on.                *)
(***************************************************************************)
\* the entry `${folder.name}.base`
BaseFile(folder) == TFile(LastSegment(folder), "base")

\* `${folder.path}/${folderName}.base`
BasePath(folder) == folder \o "/" \o LastSegment(folder) \o ".base"

\* BaseExists without the lookup
BaseExistsNever(folder) == FALSE

\* this.app.vault.getAbstractFileByPath(basePath)
BaseExists(folder) ==
    \E i \in 1..Len(tree[folder]) : FilePath(folder, tree[folder][i]) = BasePath(folder)

GenerateBaseFileContent(folder) ==
    <<[folderPath |-> IF folder = "" THEN "/" ELSE folder]>>

\* createBaseFile up to its first await
CreateBaseFile(folder) ==
    /\ events < MaxEvents
    /\ events' = events + 1
    /\ lastOp' = Op("createBaseFile", folder)
    /\ IF BaseExists(folder)
       THEN runs' = Disturbed(runs)
       ELSE runs' = Append(Disturbed(runs),
                           [NewRun("base", FALSE, folder, "baseCreate") EXCEPT
                               !.content = GenerateBaseFileContent(folder),
                               !.writes = <<"create">>])
    /\ UNCHANGED <<tree, index, base, settings, clock, view, children>>

\* vault.create resolves, or rejects because the folder has the base file
BaseCreateDone(i) ==
    /\ i \in 1..Len(runs)
    /\ runs[i].pc = "baseCreate"
    /\ LET run == runs[i]
       IN  IF Holds(tree[run.folder], BaseFile(run.folder))
           THEN /\ UNCHANGED <<tree, base>>
                /\ Ended(i, "baseCreateExists", "")
           ELSE /\ tree' = [tree EXCEPT ![run.folder] = Append(@, BaseFile(run.folder))]
                /\ base' = [base EXCEPT ![run.folder] = run.content]
                /\ lastOp' = RunOp("baseCreated", run, "Created Database file")
                \* the create event of the base file reaches the create handler
                /\ runs' = Disturbed(Without(runs, i))
                           \o (IF Triggers(BaseFile(run.folder))
                               THEN UpdateIndexFileContent(run.folder, FALSE, tree')
                               ELSE <<>>)
    /\ UNCHANGED <<index, settings, clock, events, view, children>>

\* vault.create rejects for another reason
BaseCreateFail(i) ==
    /\ i \in 1..Len(runs)
    /\ runs[i].pc = "baseCreate"
    /\ Ended(i, "baseCreateFailed", "Error creating Database file")
    /\ UNCHANGED <<tree, index, base, settings, clock, events, view, children>>

(***************************************************************************)
(* The operations of ZenSpaceView that write settings.pinnedItems.  Each   *)
(* assigns pinnedItems in one synchronous stretch; what the operation      *)
(* starts after that is part of the same step.                             *)
(***************************************************************************)
\* item.startsWith(prefix)
StartsWith(item, prefix) ==
    Len(item) >= Len(prefix) /\ SubSeq(item, 1, Len(prefix)) = prefix

\* pinnedItems.includes(path)
IsItemPinned(path) == \E i \in 1..Len(settings.pinnedItems) : settings.pinnedItems[i] = path

\* folder.parent ? `${folder.parent.path}/${newName}` : newName, for the entry
\* at path; only the root has no parent
NewPath(path, newName) ==
    IF path = "" THEN newName ELSE ParentPath(path) \o "/" \o newName

\* the paths of the folders and files of the vault
EntryPaths ==
    (DOMAIN tree \ {""})
    \cup UNION {{FilePath(f, tree[f][i]) : i \in 1..Len(tree[f])} : f \in DOMAIN tree}

\* a call of the view, in the history
ViewOp(op, path, newName) ==
    [Op(op, path) EXCEPT !.arg = newName, !.pinned = settings.pinnedItems]

ViewStep(op, path, newName) ==
    /\ events < MaxPinOps
    /\ events' = events + 1
    /\ lastOp' = ViewOp(op, path, newName)

\* a call of the view that ends with a Notice
ViewStepNotice(op, path, notice) ==
    /\ events < MaxPinOps
    /\ events' = events + 1
    /\ lastOp' = [ViewOp(op, path, "") EXCEPT !.notice = notice]

TogglePinItem(path) ==
    /\ path \in EntryPaths
    /\ settings' = [settings EXCEPT !.pinnedItems =
                       IF IsItemPinned(path)
                       THEN SelectSeq(@, LAMBDA item : item # path)
                       ELSE Append(@, path)]
    /\ ViewStep("togglePinItem", path, "")
    /\ UNCHANGED <<tree, index, base, clock, runs, view, children>>

\* renameFolder once the modal has resolved with newName
RenameFolder(folder, newName) ==
    /\ folder \in DOMAIN tree \ {""}
    /\ newName # LastSegment(folder)
    /\ LET oldPath == folder
           newPath == NewPath(folder, newName)
       IN  settings' = [settings EXCEPT !.pinnedItems =
               [i \in 1..Len(@) |->
                   IF @[i] = oldPath THEN newPath
                   ELSE IF StartsWith(@[i], oldPath \o "/")
                   THEN newPath \o SubSeq(@[i], Len(oldPath) + 1, Len(@[i]))
                   ELSE @[i]]]
    /\ ViewStep("renameFolder", folder, newName)
    /\ UNCHANGED <<tree, index, base, clock, runs, view, children>>

\* renameFile once the modal has resolved with newName
RenameFile(folder, file, newName) ==
    /\ folder \in DOMAIN tree
    /\ Holds(tree[folder], file)
    /\ newName # FileName(file)
    /\ LET oldPath == FilePath(folder, file)
           newPath == NewPath(oldPath, newName)
       IN  settings' = [settings EXCEPT !.pinnedItems =
               [i \in 1..Len(@) |-> IF @[i] = oldPath THEN newPath ELSE @[i]]]
    /\ runs' = Disturbed(runs)
               \o (IF settings.createIndexFile
                   THEN UpdateIndexFileContent(folder, FALSE, tree)
                   ELSE <<>>)
    /\ ViewStep("renameFile", FilePath(folder, file), newName)
    /\ UNCHANGED <<tree, index, base, clock, view, children>>

\* the filter of deleteFolder, with startsWith(folder.path)
DeleteFolderKeepsNoSlash(item, path) == ~StartsWith(item, path) /\ item # path

\* the filter of deleteFolder
DeleteFolderKeeps(item, path) == ~StartsWith(item, path \o "/") /\ item # path

\* the folders vault.delete(folder, true) removes
Deleted(folder) == {f \in DOMAIN tree : f = folder \/ StartsWith(f, folder \o "/")}

\* deleteFolder once the modal is confirmed; ok: vault.delete resolves
DeleteFolder(folder, ok) ==
    /\ folder \in DOMAIN tree \ {""}
    /\ settings' = [settings EXCEPT !.pinnedItems =
                       SelectSeq(@, LAMBDA item : DeleteFolderKeeps(item, folder))]
    /\ IF ok
       THEN /\ tree' = [f \in DOMAIN tree \ Deleted(folder) |-> tree[f]]
            /\ index' = [f \in DOMAIN index \ Deleted(folder) |-> index[f]]
            /\ base' = [f \in DOMAIN base \ Deleted(folder) |-> base[f]]
       ELSE UNCHANGED <<tree, index, base>>
    /\ runs' = Disturbed(runs)
    /\ ViewStepNotice("deleteFolder", folder,
                      IF ok THEN "Folder deleted" ELSE "Error deleting folder")
    /\ UNCHANGED <<clock, view, children>>

\* deleteFile once the modal is confirmed; ok: vault.delete resolves, the
\* delete handler runs, and deleteFile calls updateIndexFileContent
DeleteFile(folder, file, ok) ==
    /\ folder \in DOMAIN tree
    /\ Holds(tree[folder], file)
    /\ settings' = [settings EXCEPT !.pinnedItems =
                       IF IsItemPinned(FilePath(folder, file))
                       THEN SelectSeq(@, LAMBDA item : item # FilePath(folder, file))
                       ELSE @]
    /\ IF ok
       THEN /\ tree' = [tree EXCEPT ![folder] = Remove(@, file)]
            /\ runs' = Disturbed(runs)
                       \o (IF Triggers(file)
                           THEN UpdateIndexFileContent(folder, FALSE, tree')
                           ELSE <<>>)
                       \o (IF settings.createIndexFile
                           THEN UpdateIndexFileContent(folder, FALSE, tree')
                           ELSE <<>>)
       ELSE /\ UNCHANGED tree
            /\ runs' = Disturbed(runs)
    /\ ViewStepNotice("deleteFile", FilePath(folder, file),
                      IF ok THEN "File deleted" ELSE "Error deleting file")
    /\ UNCHANGED <<index, base, clock, view, children>>

(***************************************************************************)
(* The list of the view: the entries of the folder, filtered and sorted.   *)
(* An entry is [path, name, folder, extension, stat]: folder is TRUE for a *)
(* TFolder, stat holds ctime and mtime of a TFile.                         *)
(***************************************************************************)
Digits == "0123456789"
LowerCase == "abcdefghijklmnopqrstuvwxyz"
UpperCase == "ABCDEFGHIJKLMNOPQRSTUVWXYZ"

\* the position of the character c in the string s, 0 if it is not there
IndexOf(s, c) ==
    IF \E i \in 1..Len(s) : CharAt(s, i) = c
    THEN CHOOSE i \in 1..Len(s) : CharAt(s, i) = c
    ELSE 0

IsDigit(c) == IndexOf(Digits, c) > 0

\* parseInt(run, 10) of a string of digits
RECURSIVE ParseInt(_)
ParseInt(run) ==
    IF run = "" THEN 0
    ELSE 10 * ParseInt(SubSeq(run, 1, Len(run) - 1))
         + (IndexOf(Digits, CharAt(run, Len(run))) - 1)

\* the value pushed for a chunk without digits; above every parsed number
Infinity == 1000000

\* the end of the match of (\d+)|(\D+) that begins at i
RECURSIVE ChunkEnd(_, _)
ChunkEnd(s, i) ==
    IF i < Len(s) /\ IsDigit(CharAt(s, i + 1)) = IsDigit(CharAt(s, i))
    THEN ChunkEnd(s, i + 1)
    ELSE i

\* the pairs that a.replace(/(\d+)|(\D+)/g, ...) pushes, from position i
RECURSIVE Chunks(_, _)
Chunks(s, i) ==
    IF i > Len(s) THEN <<>>
    ELSE LET end == ChunkEnd(s, i)
             text == SubSeq(s, i, end)
         IN  <<IF IsDigit(CharAt(s, i))
               THEN <<ParseInt(text), "">>
               ELSE <<Infinity, text>>>>
             \o Chunks(s, end + 1)

\* the weight of a character in the collation of localeCompare: at level 1
\* the full stop before the letters, the letters in alphabetical order
\* whatever their case; at level 3 the lower case before the upper case
Weight(level, c) ==
    IF level = 1
    THEN IndexOf(LowerCase, c) + IndexOf(UpperCase, c)
    ELSE IF IndexOf(UpperCase, c) > 0 THEN 1 ELSE 0

RECURSIVE CollateFrom(_, _, _, _)
CollateFrom(level, a, b, i) ==
    IF i > Len(a) /\ i > Len(b) THEN 0
    ELSE IF i > Len(a) THEN -1
    ELSE IF i > Len(b) THEN 1
    ELSE IF Weight(level, CharAt(a, i)) < Weight(level, CharAt(b, i)) THEN -1
    ELSE IF Weight(level, CharAt(a, i)) > Weight(level, CharAt(b, i)) THEN 1
    ELSE CollateFrom(level, a, b, i + 1)

\* a.localeCompare(b) in the root collation, for strings of letters and
\* full stops
LocaleCompare(a, b) ==
    IF CollateFrom(1, a, b, 1) # 0 THEN CollateFrom(1, a, b, 1) ELSE CollateFrom(3, a, b, 1)

\* an[0] - bn[0]: Infinity - Infinity is NaN, which || takes for false
Difference(an, bn) == IF an = Infinity /\ bn = Infinity THEN 0 ELSE an - bn

\* the while loop of naturalCompare, from the pair at i of both lists
RECURSIVE CompareChunks(_, _, _)
CompareChunks(ax, bx, i) ==
    IF i > Len(ax) \/ i > Len(bx) THEN Len(ax) - Len(bx)
    ELSE LET an == ax[i]
             bn == bx[i]
             nn == IF Difference(an[1], bn[1]) # 0
                   THEN Difference(an[1], bn[1])
                   ELSE LocaleCompare(an[2], bn[2])
         IN  IF nn # 0 THEN nn ELSE CompareChunks(ax, bx, i + 1)

NaturalCompare(a, b) == CompareChunks(Chunks(a, 1), Chunks(b, 1), 1)

\* getFileTime
GetFileTime(file, type) == IF type = "created" THEN file.stat.ctime ELSE file.stat.mtime

\* the comparator of sortFiles
CompareFiles(a, b, currentSortBy, currentSortOrder) ==
    LET aPinned == IsItemPinned(a.path)
        bPinned == IsItemPinned(b.path)
        comparison ==
            IF currentSortBy = "filename" THEN NaturalCompare(a.name, b.name)
            ELSE IF ~a.folder /\ ~b.folder
            THEN GetFileTime(a, currentSortBy) - GetFileTime(b, currentSortBy)
            ELSE 0
    IN  IF aPinned /\ ~bPinned THEN -1
        ELSE IF ~aPinned /\ bPinned THEN 1
        ELSE IF a.folder /\ ~b.folder THEN -1
        ELSE IF ~a.folder /\ b.folder THEN 1
        ELSE IF currentSortOrder = "asc" THEN comparison ELSE 0 - comparison

\* file put into a sorted list behind every entry that does not come after it
RECURSIVE InsertFile(_, _, _, _)
InsertFile(sorted, file, currentSortBy, currentSortOrder) ==
    IF sorted = <<>> THEN <<file>>
    ELSE IF CompareFiles(file, sorted[Len(sorted)], currentSortBy, currentSortOrder) >= 0
    THEN Append(sorted, file)
    ELSE Append(InsertFile(SubSeq(sorted, 1, Len(sorted) - 1), file,
                           currentSortBy, currentSortOrder),
                sorted[Len(sorted)])

\* sortFiles that leaves the array as it is
SortFilesUnsorted(files, currentSortBy, currentSortOrder) == files

\* sortFiles: Array.prototype.sort, which is stable, with the comparator
RECURSIVE SortFiles(_, _, _)
SortFiles(files, currentSortBy, currentSortOrder) ==
    IF files = <<>> THEN <<>>
    ELSE InsertFile(SortFiles(SubSeq(files, 1, Len(files) - 1), currentSortBy, currentSortOrder),
                    files[Len(files)], currentSortBy, currentSortOrder)

\* shouldIncludeFile
ShouldIncludeFile(file) ==
    IF file.folder THEN settings.includeSubfolders
    ELSE IF file.extension = "canvas" THEN settings.includeCanvasFiles
    ELSE IF file.extension = "md" THEN TRUE
    ELSE settings.includeOtherFormats

\* the filter of displayFolderContents for the folder displayed, with an
\* empty search term
FilesToDisplay ==
    SelectSeq(children, LAMBDA file : IF file.folder THEN settings.includeSubfolders
                                      ELSE ShouldIncludeFile(file))

\* refreshView: displayFolderContents on the folder displayed
RefreshView(v) ==
    [v EXCEPT !.shown = SortFiles(FilesToDisplay, v.currentSortBy, v.currentSortOrder)]

\* a click on an option of the sort menu
SortMenu(by, order) ==
    /\ view.leaf
    /\ view' = RefreshView([view EXCEPT !.currentSortBy = by, !.currentSortOrder = order])
    /\ lastOp' = Op("sort", view.folder)
    /\ UNCHANGED <<base, tree, index, settings, clock, runs, events, children>>

(***************************************************************************)
(* The vault events the plugin subscribes to, with the change of the       *)
(* vault that raises them.                                                 *)
(***************************************************************************)
\* vault.on("create")
OnCreate(folder, file) ==
    /\ file \in UserFiles
    /\ ~Holds(tree[folder], file)
    /\ tree' = [tree EXCEPT ![folder] = Append(@, file)]
    /\ runs' = Disturbed(runs)
               \o (IF Triggers(file) THEN UpdateIndexFileContent(folder, FALSE, tree') ELSE <<>>)
    /\ UserChange
    /\ UNCHANGED <<base, index, settings, clock, view, children>>

\* vault.on("delete")
OnDelete(folder, file) ==
    /\ file \in UserFiles
    /\ Holds(tree[folder], file)
    /\ tree' = [tree EXCEPT ![folder] = Remove(@, file)]
    /\ runs' = Disturbed(runs)
               \o (IF Triggers(file) THEN UpdateIndexFileContent(folder, FALSE, tree') ELSE <<>>)
    /\ UserChange
    /\ UNCHANGED <<base, index, settings, clock, view, children>>

\* vault.on("rename"): file is the entry under its new name and parent
OnRename(oldFolder, oldFile, folder, file) ==
    /\ oldFile \in UserFiles
    /\ file \in UserFiles
    /\ Holds(tree[oldFolder], oldFile)
    /\ <<oldFolder, oldFile>> # <<folder, file>>
    /\ ~Holds(tree[folder], file)
    /\ tree' = IF folder = oldFolder
               THEN [tree EXCEPT ![folder] = Append(Remove(@, oldFile), file)]
               ELSE [tree EXCEPT ![oldFolder] = Remove(@, oldFile), ![folder] = Append(@, file)]
    /\ LET oldPath == FilePath(oldFolder, oldFile)
           oldParentPath == SubSeq(oldPath, 1, LastSlash(oldPath, Len(oldPath)) - 1)
       IN  runs' = Disturbed(runs)
                   \o (IF Triggers(file) THEN UpdateIndexFileContent(folder, FALSE, tree') ELSE <<>>)
                   \o (IF oldParentPath \in DOMAIN tree /\ oldParentPath # folder
                       THEN UpdateIndexFileContent(oldParentPath, FALSE, tree')
                       ELSE <<>>)
    /\ UserChange
    /\ UNCHANGED <<base, index, settings, clock, view, children>>

\* the date changes
Tick ==
    /\ clock' = clock + 1
    /\ runs' = Disturbed(runs)
    /\ UserChange
    /\ UNCHANGED <<base, tree, index, settings, view, children>>

\* a toggle of the settings tab
ToggleSetting(name) ==
    /\ settings' = [settings EXCEPT ![name] = ~@]
    /\ runs' = Disturbed(runs)
    /\ UserChange
    /\ UNCHANGED <<base, tree, index, clock, view, children>>

\* the user adds the field X: 1 to the frontmatter of an Index.md
EditFrontMatter(folder) ==
    /\ index[folder] # NoDoc
    /\ ~HasField(index[folder][1].fm, "X")
    /\ index' = [index EXCEPT ![folder] =
                    <<[@[1] EXCEPT !.fm = SetField(@, Scalar("X", "1"))]>>]
    /\ runs' = Disturbed(runs)
    /\ UserChange
    /\ UNCHANGED <<base, tree, settings, clock, view, children>>

\* the user writes a base file of the folder by hand, or rewrites it
WriteBase(folder) ==
    /\ base[folder] # <<[folderPath |-> "by hand"]>>
    /\ base' = [base EXCEPT ![folder] = <<[folderPath |-> "by hand"]>>]
    /\ tree' = IF Holds(tree[folder], BaseFile(folder)) THEN tree
               ELSE [tree EXCEPT ![folder] = Append(@, BaseFile(folder))]
    /\ runs' = Disturbed(runs)
               \o (IF Triggers(BaseFile(folder))
                   THEN UpdateIndexFileContent(folder, FALSE, tree')
                   ELSE <<>>)
    /\ UserChange
    /\ UNCHANGED <<index, settings, clock, view, children>>

Next ==
    \/ \E folder \in Folders : CreateIndexFile(folder)
    \/ \E i \in 1..Len(runs) : ReadDone(i)
    \/ \E i \in 1..Len(runs) : FrontMatterDone(i)
    \/ \E i \in 1..Len(runs) : ModifyDone(i)
    \/ \E i \in 1..Len(runs) : UpdateFail(i)
    \/ \E i \in 1..Len(runs) : CreateDone(i)
    \/ \E i \in 1..Len(runs) : CreateFail(i)
    \/ \E folder \in Folders, file \in UserFiles : OnCreate(folder, file)
    \/ \E folder \in Folders, file \in UserFiles : OnDelete(folder, file)
    \/ \E oldFolder \in Folders, oldFile \in UserFiles, folder \in Folders, file \in UserFiles :
          OnRename(oldFolder, oldFile, folder, file)
    \/ Tick
    \/ \E name \in SettingNames : ToggleSetting(name)
    \/ \E folder \in Folders : EditFrontMatter(folder)

Spec == Init /\ [][Next]_vars

(***************************************************************************)
(* The event handlers alone: an Index.md of R exists, as createIndexFile   *)
(* leaves it for the empty folder, notes are created, deleted and renamed, *)
(* and no storage call fails.                                              *)
(***************************************************************************)
Notes == {file \in UserFiles : file.extension = "md"}

InitWithIndex ==
    /\ settings = DEFAULT_SETTINGS
    /\ clock = 0
    /\ tree = [f \in Folders |-> IF f = "R" THEN <<IndexFile>> ELSE <<>>]
    /\ index = [f \in Folders |->
                  IF f = "R"
                  THEN <<LongformTemplate("R", CssClass(TRUE), FormattedDate(0), <<>>,
                                          <<[path |-> "R/S", files |-> <<>>]>>, TRUE)>>
                  ELSE NoDoc]
    /\ base = [f \in Folders |-> NoDoc]
    /\ runs = <<>>
    /\ events = 0
    /\ lastOp = Idle
    /\ view = ClosedView
    /\ children = <<>>

NextEvents ==
    \/ \E i \in 1..Len(runs) : ReadDone(i)
    \/ \E i \in 1..Len(runs) : FrontMatterDone(i)
    \/ \E i \in 1..Len(runs) : ModifyDone(i)
    \/ \E folder \in Folders, file \in Notes : OnCreate(folder, file)
    \/ \E folder \in Folders, file \in Notes : OnDelete(folder, file)
    \/ \E oldFolder \in Folders, oldFile \in Notes, folder \in Folders, file \in Notes :
          OnRename(oldFolder, oldFile, folder, file)

SpecEvents == InitWithIndex /\ [][NextEvents]_vars

(***************************************************************************)
(* createBaseFile, called at any time, while notes and base files come and *)
(* go.                                                                     *)
(***************************************************************************)
NextBase ==
    \/ \E folder \in Folders : CreateBaseFile(folder)
    \/ \E i \in 1..Len(runs) : BaseCreateDone(i)
    \/ \E i \in 1..Len(runs) : BaseCreateFail(i)
    \/ \E folder \in Folders : WriteBase(folder)
    \/ \E folder \in Folders, file \in UserFiles : OnCreate(folder, file)
    \/ \E folder \in Folders, file \in UserFiles : OnDelete(folder, file)

SpecBase == Init /\ [][NextBase]_vars

(***************************************************************************)
(* The pinned items: a vault of R, R/S and R/Sx with three notes, and any  *)
(* one or two of its entries pinned.                                       *)
(***************************************************************************)
PinFolders == {"R", "R/S", "R/Sx"}

\* the names entered in the rename modal
NewNames == {"B.md", "X"}

PinTree ==
    [f \in PinFolders |->
        IF f = "R" THEN <<TFile("a", "md"), TFile("B", "md")>>
        ELSE IF f = "R/S" THEN <<TFile("a", "md")>>
        ELSE <<>>]

PinPaths == {"R", "R/S", "R/Sx", "R/a.md", "R/B.md", "R/S/a.md"}

InitPins ==
    /\ tree = PinTree
    /\ index = [f \in PinFolders |-> NoDoc]
    /\ base = [f \in PinFolders |-> NoDoc]
    /\ \E pins \in {<<>>} \cup {<<p>> : p \in PinPaths}
                   \cup {<<p, q>> : p \in PinPaths, q \in PinPaths} :
          /\ \A i, j \in 1..Len(pins) : pins[i] = pins[j] => i = j
          /\ settings = [DEFAULT_SETTINGS EXCEPT !.pinnedItems = pins]
    /\ clock = 0
    /\ runs = <<>>
    /\ events = 0
    /\ lastOp = Idle
    /\ view = ClosedView
    /\ children = <<>>

NextPins ==
    \/ \E path \in PinPaths : TogglePinItem(path)
    \/ \E folder \in PinFolders, newName \in NewNames : RenameFolder(folder, newName)
    \/ \E folder \in PinFolders, file \in UserFiles, newName \in NewNames :
          RenameFile(folder, file, newName)
    \/ \E folder \in PinFolders, ok \in BOOLEAN : DeleteFolder(folder, ok)
    \/ \E folder \in PinFolders, file \in UserFiles, ok \in BOOLEAN :
          DeleteFile(folder, file, ok)

SpecPins == InitPins /\ [][NextPins]_vars

(***************************************************************************)
(* Folder activations in a vault of R, R/S and R/S/T, each empty, with a   *)
(* note, or with a note, a canvas and an Index.md of its own, while the    *)
(* settings that select files are toggled; no storage call fails.          *)
(***************************************************************************)
ScopeFolders == {"R", "R/S", "R/S/T"}

ScopeSettingNames == {"includeSubfolders", "includeCanvasFiles", "includeOtherFormats"}

InitScope ==
    /\ tree \in [ScopeFolders -> {<<>>, <<TFile("a", "md")>>,
                                  <<TFile("a", "canvas"), TFile("B", "md")>>}]
    /\ index = [f \in ScopeFolders |-> NoDoc]
    /\ base = [f \in ScopeFolders |-> NoDoc]
    /\ settings = DEFAULT_SETTINGS
    /\ clock = 0
    /\ runs = <<>>
    /\ events = 0
    /\ lastOp = Idle
    /\ view = ClosedView
    /\ children = <<>>

NextScope ==
    \/ \E folder \in ScopeFolders : CreateIndexFile(folder)
    \/ \E i \in 1..Len(runs) : CreateDone(i)
    \/ \E i \in 1..Len(runs) : ReadDone(i)
    \/ \E i \in 1..Len(runs) : FrontMatterDone(i)
    \/ \E i \in 1..Len(runs) : ModifyDone(i)
    \/ \E name \in ScopeSettingNames : ToggleSetting(name)

SpecScope == InitScope /\ [][NextScope]_vars

(***************************************************************************)
(* The host settles every storage call it was given: a run that waits for  *)
(* vault.read, processFrontMatter, vault.modify or vault.create is resumed, *)
(* with the result or with the error.                                      *)
(***************************************************************************)
StorageCallSettles ==
    \E i \in 1..Len(runs) :
        \/ ReadDone(i)
        \/ FrontMatterDone(i)
        \/ ModifyDone(i)
        \/ UpdateFail(i)
        \/ CreateDone(i)
        \/ CreateFail(i)

SpecFair == Spec /\ WF_vars(StorageCallSettles)

(***************************************************************************)
(* The event handlers in a vault where R has the Index.md that             *)
(* createIndexFile writes for an empty folder and R/S has none until it is *)
(* activated; a note and a canvas are created, deleted and renamed, and no *)
(* storage call fails.                                                     *)
(***************************************************************************)
HandlerFiles == {TFile("a", "md"), TFile("a", "canvas")}

\* the Index.md of createIndexFile for the folder when it holds no file
EmptyFolderIndex(f) ==
    <<LongformTemplate(f, CssClass(TRUE), FormattedDate(0), <<>>,
                       IF f = "R" THEN <<[path |-> "R/S", files |-> <<>>]>> ELSE <<>>,
                       TRUE)>>

InitHandlers ==
    /\ settings = DEFAULT_SETTINGS
    /\ clock = 0
    /\ tree = [f \in Folders |-> IF f = "R" THEN <<IndexFile>> ELSE <<>>]
    /\ index = [f \in Folders |-> IF f = "R" THEN EmptyFolderIndex(f) ELSE NoDoc]
    /\ base = [f \in Folders |-> NoDoc]
    /\ runs = <<>>
    /\ events = 0
    /\ lastOp = Idle
    /\ view = ClosedView
    /\ children = <<>>

NextHandlers ==
    \/ \E folder \in {"R/S"} : CreateIndexFile(folder)
    \/ \E i \in 1..Len(runs) : CreateDone(i)
    \/ \E i \in 1..Len(runs) : ReadDone(i)
    \/ \E i \in 1..Len(runs) : FrontMatterDone(i)
    \/ \E i \in 1..Len(runs) : ModifyDone(i)
    \/ \E folder \in Folders, file \in HandlerFiles : OnCreate(folder, file)
    \/ \E folder \in Folders, file \in HandlerFiles : OnDelete(folder, file)
    \/ \E oldFolder \in Folders, oldFile \in HandlerFiles,
          folder \in Folders, file \in HandlerFiles :
          OnRename(oldFolder, oldFile, folder, file)

SpecHandlers == InitHandlers /\ [][NextHandlers]_vars

(***************************************************************************)
(* The handlers with the setting createIndexFile turned off before the     *)
(* first event, in a vault where R and R/S have the Index.md that          *)
(* createIndexFile wrote while the setting was on.                         *)
(***************************************************************************)
InitDisabled ==
    /\ settings = [DEFAULT_SETTINGS EXCEPT !.createIndexFile = FALSE]
    /\ clock = 0
    /\ tree = [f \in Folders |-> <<IndexFile>>]
    /\ index = [f \in Folders |-> EmptyFolderIndex(f)]
    /\ base = [f \in Folders |-> NoDoc]
    /\ runs = <<>>
    /\ events = 0
    /\ lastOp = Idle
    /\ view = ClosedView
    /\ children = <<>>

NextDisabled ==
    \/ \E i \in 1..Len(runs) : ReadDone(i)
    \/ \E i \in 1..Len(runs) : FrontMatterDone(i)
    \/ \E i \in 1..Len(runs) : ModifyDone(i)
    \/ \E folder \in Folders, file \in HandlerFiles : OnCreate(folder, file)
    \/ \E folder \in Folders, file \in HandlerFiles : OnDelete(folder, file)
    \/ \E oldFolder \in Folders, oldFile \in HandlerFiles,
          folder \in Folders, file \in HandlerFiles :
          OnRename(oldFolder, oldFile, folder, file)

SpecDisabled == InitDisabled /\ [][NextDisabled]_vars

(***************************************************************************)
(* The view and its history: folders of an empty vault are displayed with  *)
(* navigateToFolder, the two buttons and openInZenSpace; the setting       *)
(* createIndexFile is on or off; a leaf shows the view of the root from    *)
(* the start, or none does; no storage call fails.                         *)
(***************************************************************************)
NavFolders == {"R", "R/S", "R/Sx"}

InitNav ==
    /\ tree = [f \in NavFolders |-> <<>>]
    /\ index = [f \in NavFolders |-> NoDoc]
    /\ base = [f \in NavFolders |-> NoDoc]
    /\ \E on \in BOOLEAN : settings = [DEFAULT_SETTINGS EXCEPT !.createIndexFile = on]
    /\ clock = 0
    /\ runs = <<>>
    /\ events = 0
    /\ lastOp = Idle
    /\ \E leaf \in BOOLEAN : view = [ClosedView EXCEPT !.leaf = leaf]
    /\ children = <<>>

NextNav ==
    \/ \E folder \in NavFolders : NavigateToFolder(folder)
    \/ Back
    \/ Forward
    \/ \E folder \in NavFolders : OpenInZenSpace(folder)
    \/ \E i \in 1..Len(runs) : CreateDone(i)
    \/ \E i \in 1..Len(runs) : ReadDone(i)
    \/ \E i \in 1..Len(runs) : FrontMatterDone(i)
    \/ \E i \in 1..Len(runs) : ModifyDone(i)

SpecNav == InitNav /\ [][NextNav]_vars

(***************************************************************************)
(* The list of a view opened on R with the default sort: R holds up to     *)
(* MaxChildren entries in any order, any of them pinned, the files with    *)
(* any of three stats; the options of the sort menu are clicked.           *)
(***************************************************************************)
SortNames == {"S", "T", "a2.md", "a02.md", "a10.md"}

Stats == {[ctime |-> 1, mtime |-> 1], [ctime |-> 1, mtime |-> 2], [ctime |-> 2, mtime |-> 1]}

SortEntries ==
    {[path |-> "R/" \o n, name |-> n, folder |-> TRUE, extension |-> "",
      stat |-> [ctime |-> 0, mtime |-> 0]] :
        n \in {n \in SortNames : ~EndsWith(n, ".md")}}
    \cup {[path |-> "R/" \o n, name |-> n, folder |-> FALSE, extension |-> "md", stat |-> s] :
            n \in {n \in SortNames : EndsWith(n, ".md")}, s \in Stats}

\* the sequences of up to n entries with different names
RECURSIVE Listings(_)
Listings(n) ==
    IF n = 0 THEN {<<>>}
    ELSE Listings(n - 1)
         \cup {Append(l, e) : l \in {l \in Listings(n - 1) : Len(l) = n - 1},
                              e \in SortEntries}

InitSort ==
    /\ tree = [f \in {"R"} |-> <<>>]
    /\ index = [f \in {"R"} |-> NoDoc]
    /\ base = [f \in {"R"} |-> NoDoc]
    /\ clock = 0
    /\ runs = <<>>
    /\ events = 0
    /\ lastOp = Idle
    /\ children \in {l \in Listings(MaxChildren) :
                        \A i, j \in 1..Len(l) : l[i].name = l[j].name => i = j}
    /\ \E pinned \in SUBSET (1..Len(children)) :
          settings = [DEFAULT_SETTINGS EXCEPT !.pinnedItems =
                         [k \in 1..Cardinality(pinned) |->
                             children[CHOOSE i \in pinned :
                                         Cardinality({j \in pinned : j < i}) = k - 1].path]]
    /\ view = RefreshView([ClosedView EXCEPT !.leaf = TRUE, !.folder = "R"])

NextSort ==
    \E by \in {"filename", "modified", "created"}, order \in {"asc", "desc"} : SortMenu(by, order)

SpecSort == InitSort /\ [][NextSort]_vars

(***************************************************************************)
(* Folder activations alone, in a vault of the root, R, R/S and R/S/T,     *)
(* each with or without a note; no storage call fails.                     *)
(***************************************************************************)
HeadingFolders == {"", "R", "R/S", "R/S/T"}

InitHeadings ==
    /\ tree \in [HeadingFolders -> {<<>>, <<TFile("a", "md")>>}]
    /\ index = [f \in HeadingFolders |-> NoDoc]
    /\ base = [f \in HeadingFolders |-> NoDoc]
    /\ settings = DEFAULT_SETTINGS
    /\ clock = 0
    /\ runs = <<>>
    /\ events = 0
    /\ lastOp = Idle
    /\ view = ClosedView
    /\ children = <<>>

NextHeadings ==
    \/ \E folder \in HeadingFolders : CreateIndexFile(folder)
    \/ \E i \in 1..Len(runs) : CreateDone(i)
    \/ \E i \in 1..Len(runs) : ReadDone(i)
    \/ \E i \in 1..Len(runs) : FrontMatterDone(i)
    \/ \E i \in 1..Len(runs) : ModifyDone(i)

SpecHeadings == InitHeadings /\ [][NextHeadings]_vars

(***************************************************************************)
(* Properties.                                                             *)
(***************************************************************************)
Done == {"createDone", "updateDone"}

DocOf(folder) == index[folder][1]

\* folder g lies in the subtree of folder f, f excluded
Below(g, f) == Len(g) > Len(f) /\ SubSeq(g, 1, Len(f) + 1) = f \o "/"

\* the display names of the notes of a folder other than its Index.md
NoteNames(folder) ==
    {tree[folder][i].basename : i \in {j \in 1..Len(tree[folder]) :
        /\ tree[folder][j].extension = "md"
        /\ tree[folder][j] # IndexFile}}

\* the same over the scope of a synchronization of the folder
ScopeNames(folder) ==
    NoteNames(folder)
    \cup (IF settings.includeSubfolders
          THEN UNION {NoteNames(g) : g \in {h \in Folders : Below(h, folder)}}
          ELSE {})

Increasing(names) == \A i \in 1..(Len(names) - 1) : StrLess(names[i], names[i + 1])

\* C1: an undisturbed synchronization that begins right after an undisturbed
\* synchronization of the same folder ended leaves the content that run left
C1_Idempotent ==
    (lastOp.op \in Done /\ lastOp.fresh) => index[lastOp.folder] = lastOp.pre

\* C2: an undisturbed updateIndexFileContent keeps every frontmatter field but
\* updated, cssclass and, with useLongformTemplate, longform as it was
C2_FieldsKept ==
    (lastOp.op = "updateDone" /\ lastOp.isolated) =>
        LET before == lastOp.pre[1].fm
            after == DocOf(lastOp.folder).fm
        IN  \A i \in 1..Len(before) :
                (/\ before[i].key \notin {"updated", "cssclass"}
                 /\ ~(before[i].key = "longform" /\ lastOp.useLongform))
                => (HasField(after, before[i].key) /\ Field(after, before[i].key) = before[i])

\* C3: an undisturbed updateIndexFileContent leaves created as it was
C3_CreatedKept ==
    (lastOp.op = "updateDone" /\ lastOp.isolated) =>
        /\ HasField(DocOf(lastOp.folder).fm, "created")
        /\ Field(DocOf(lastOp.folder).fm, "created") = Field(lastOp.pre[1].fm, "created")

\* C4: when a synchronization ends, updated is the date the run took from the
\* clock, which is no later than the date of the end and, for a run no other
\* step interrupted, is the date of the end
C4_UpdatedIsSyncDate ==
    (lastOp.op \in Done) =>
        LET fm == DocOf(lastOp.folder).fm
        IN  /\ HasField(fm, "updated")
            /\ \E day \in 0..clock :
                  /\ Field(fm, "updated").str = "2025-01-" \o ToString(10 + day)
                  /\ lastOp.isolated => day = clock

C4_Witness ==
    /\ lastOp.op = "updateDone"
    /\ lastOp.isolated
    /\ clock = 1
    /\ Field(lastOp.pre[1].fm, "updated").str = "2025-01-10"
    /\ Field(DocOf(lastOp.folder).fm, "updated").str = "2025-01-11"

\* C5: when an undisturbed synchronization ends with a longform block in the
\* document, scenes is strictly increasing and holds exactly the names of the
\* notes in scope
C5_Scenes ==
    (/\ lastOp.op \in Done
     /\ lastOp.isolated
     /\ HasField(DocOf(lastOp.folder).fm, "longform")) =>
        LET scenes == Field(DocOf(lastOp.folder).fm, "longform").lf[1].scenes
        IN  /\ Increasing(scenes)
            /\ Range(scenes) = ScopeNames(lastOp.folder)

C5_Witness ==
    /\ lastOp.op = "createDone"
    /\ lastOp.isolated
    /\ lastOp.folder = "R"
    /\ HasField(DocOf("R").fm, "longform")
    /\ Field(DocOf("R").fm, "longform").lf[1].scenes = <<"a">>
    /\ NoteNames("R") = {"a"}
    /\ NoteNames("R/S") = {"a"}

\* C6: an undisturbed updateIndexFileContent with useLongformTemplate leaves a
\* longform block: the one it found with scenes replaced, or a new one with
\* the default fields
C6_LongformMerged ==
    (lastOp.op = "updateDone" /\ lastOp.isolated /\ lastOp.useLongform) =>
        LET before == lastOp.pre[1].fm
            after == DocOf(lastOp.folder).fm
        IN  /\ HasField(after, "longform")
            /\ LET block == Field(after, "longform").lf[1]
                   old == IF HasField(before, "longform")
                          THEN Field(before, "longform").lf[1]
                          ELSE [format |-> "scenes", title |-> LastSegment(lastOp.folder),
                                workflow |-> "Default Workflow", sceneFolder |-> "/",
                                scenes |-> <<>>, ignoredFiles |-> <<"Index">>]
               IN  /\ [block EXCEPT !.scenes = <<>>] = [old EXCEPT !.scenes = <<>>]
                   /\ Increasing(block.scenes)
                   /\ Range(block.scenes) = ScopeNames(lastOp.folder)

\* C7: once every run the handlers started has ended, the flat list of the
\* Index.md of R holds exactly the notes of R
C7_Converges ==
    (runs = <<>>) =>
        /\ Increasing(DocOf("R").body.flat)
        /\ Range(DocOf("R").body.flat) = NoteNames("R")

\* C8: while a call of updateIndexFileContent that nothing interrupts has not
\* ended, the document holds the content it had when the call began
C8_NoIntermediateContent ==
    \A i \in 1..Len(runs) :
        (runs[i].kind = "update" /\ runs[i].isolated) => index[runs[i].folder] = runs[i].pre

\* C9: when the write of a synchronization that nothing interrupted fails,
\* the document holds the content it had when the synchronization began
C9_FailedWriteKeepsContent ==
    (lastOp.op \in {"modifyFailed", "createFailed"} /\ lastOp.isolated) =>
        index[lastOp.folder] = lastOp.pre

Lists(doc) ==
    {doc.body.flat}
    \cup {doc.body.subs[i].names : i \in 1..Len(doc.body.subs)}
    \cup (IF HasField(doc.fm, "longform") THEN {Field(doc.fm, "longform").lf[1].scenes} ELSE {})

\* C10: no list of any Index.md holds the name Index
C10_IndexNeverListed ==
    \A folder \in Folders :
        index[folder] # NoDoc => \A list \in Lists(DocOf(folder)) : "Index" \notin Range(list)

C10_Witness ==
    /\ lastOp.op = "updateDone"
    /\ lastOp.folder = "R"
    /\ settings.includeSubfolders
    /\ index["R/S"] # NoDoc
    /\ Len(DocOf("R").body.flat) > 0

\* C11: the flat list and every subsection list of every Index.md are strictly
\* increasing in the order of the UTF-16 code units: sorted, and no name twice
C11_ListsSorted ==
    \A folder \in DOMAIN index :
        index[folder] # NoDoc =>
            /\ Increasing(DocOf(folder).body.flat)
            /\ \A i \in 1..Len(DocOf(folder).body.subs) :
                   Increasing(DocOf(folder).body.subs[i].names)

C11_Witness ==
    /\ index["R"] # NoDoc
    /\ DocOf("R").body.flat = <<"B", "a">>
    /\ Len(tree["R"]) >= 2
    /\ tree["R"][1] = TFile("a", "md")
    /\ tree["R"][2] = TFile("B", "md")

\* folder s lies in the subtree of folder f, f excluded
RECURSIVE IsBelow(_, _)
IsBelow(s, f) == s # "" /\ (ParentPath(s) = f \/ IsBelow(ParentPath(s), f))

\* how many folders below f the folder s lies
RECURSIVE DepthBelow(_, _)
DepthBelow(s, f) == IF s = f THEN 0 ELSE 1 + DepthBelow(ParentPath(s), f)

\* the folders below f that hold a note, in the order of a walk of the tree
Contributing(f) ==
    SelectSeq(FolderList,
              LAMBDA s : s \in DOMAIN tree /\ IsBelow(s, f) /\ NoteNames(s) # {})

\* C12: in the Index.md of every folder, the root included, there is one
\* subsection for each folder below it that holds a note, and its heading has
\* as many # as that folder lies below, plus one: never fewer than two
C12_HeadingDepth ==
    \A f \in DOMAIN index :
        index[f] # NoDoc =>
            LET subs == DocOf(f).body.subs
                from == Contributing(f)
            IN  /\ Len(subs) = Len(from)
                /\ \A i \in 1..Len(subs) :
                       /\ subs[i].label = LastSegment(from[i])
                       /\ subs[i].level = DepthBelow(from[i], f) + 1
                       /\ subs[i].level >= 1

\* the same for every folder but the root
C12_HeadingDepthBelowRoot ==
    \A f \in DOMAIN index :
        (index[f] # NoDoc /\ f # "") =>
            LET subs == DocOf(f).body.subs
                from == Contributing(f)
            IN  /\ Len(subs) = Len(from)
                /\ \A i \in 1..Len(subs) :
                       /\ subs[i].label = LastSegment(from[i])
                       /\ subs[i].level = DepthBelow(from[i], f) + 1

BaseOps == {"createBaseFile", "baseCreated", "baseCreateExists", "baseCreateFailed"}

\* C13: a step of createBaseFile for a folder that has a base file starts no
\* create and leaves the content of the base file as it is
C13_ExistingBaseUntouched ==
    [][\A f \in DOMAIN base :
          (base[f] # NoDoc /\ lastOp'.op \in BaseOps /\ lastOp'.folder = f) =>
              /\ base'[f] = base[f]
              /\ lastOp'.op = "createBaseFile" => Len(runs') = Len(runs)]_vars

C13_Witness ==
    /\ lastOp.op = "createBaseFile"
    /\ lastOp.folder = "R"
    /\ base["R"] = <<[folderPath |-> "by hand"]>>
    /\ Len(tree["R"]) = 2
    /\ runs = <<>>

\* what C14 says of a createIndexFile call, given its history
TwoPaths(call) ==
    IF call.absent
    THEN call.kind = "create" /\ call.writes = <<"create">>
    ELSE call.kind = "update" /\ "create" \notin Range(call.writes)

\* C14: a createIndexFile call that found no Index.md issues one create and no
\* other write, one that found an Index.md issues no create and runs
\* updateIndexFileContent; when an activation ends without a storage error
\* the folder has an Index.md
C14_TwoPaths ==
    /\ \A i \in 1..Len(runs) : runs[i].viaCreate => TwoPaths(runs[i])
    /\ lastOp.viaCreate =>
          /\ TwoPaths(lastOp)
          /\ lastOp.op \in {"createDone", "createExists", "updateDone"} =>
                /\ Holds(tree[lastOp.folder], IndexFile)
                /\ index[lastOp.folder] # NoDoc

C14_Witness ==
    /\ lastOp.op = "updateDone"
    /\ lastOp.viaCreate
    /\ ~lastOp.absent
    /\ lastOp.writes = <<"frontmatter", "modify">>
    /\ index["R/S"] # NoDoc

\* C15: for a folder without an Index.md no updateIndexFileContent call gets as
\* far as its first storage call, whatever is created, deleted or renamed in
\* the folder, and the folder stays without an Index.md
C15_NoIndexNoSync ==
    \A f \in DOMAIN tree :
        ~Holds(tree[f], IndexFile) =>
            /\ index[f] = NoDoc
            /\ \A i \in 1..Len(runs) : ~(runs[i].kind = "update" /\ runs[i].folder = f)

C15_Witness ==
    /\ ~Holds(tree["R/S"], IndexFile)
    /\ NoteNames("R/S") # {}
    /\ events = MaxEvents
    /\ lastOp.op = "updateDone"
    /\ runs = <<>>

\* C16: when the create of an Index.md is rejected because the folder has one
\* already, no Notice is shown and every Index.md is left as it is
C16_AlreadyExistsSilent ==
    [][lastOp'.op = "createExists" => (lastOp'.notice = "" /\ index' = index)]_vars

C16_Witness ==
    /\ lastOp.op = "createExists"
    /\ lastOp.absent
    /\ lastOp.writes = <<"create">>
    /\ index[lastOp.folder] # NoDoc

FailedOps == {"readFailed", "frontmatterFailed", "modifyFailed", "createFailed"}

\* C17: a synchronization that ends because a storage call failed ends with a
\* Notice of the error
C17_FailureNotified ==
    lastOp.op \in FailedOps =>
        lastOp.notice \in {"Error creating Index file", "Error updating Index file"}

\* C18: no path is in pinnedItems twice
C18_PinsAreSet ==
    \A i, j \in 1..Len(settings.pinnedItems) :
        settings.pinnedItems[i] = settings.pinnedItems[j] => i = j

\* C19: deleteFile leaves pinnedItems without the path of the file, and
\* deleteFolder without the path of the folder and the paths of the entries
\* below it; the other paths stay, in their order
C19_DeletePrunes ==
    /\ lastOp.op = "deleteFile" =>
          settings.pinnedItems = SelectSeq(lastOp.pinned, LAMBDA item : item # lastOp.folder)
    /\ lastOp.op = "deleteFolder" =>
          settings.pinnedItems =
              SelectSeq(lastOp.pinned,
                        LAMBDA item : item # lastOp.folder /\ ~IsBelow(item, lastOp.folder))

C19_Witness ==
    /\ lastOp.op = "deleteFolder"
    /\ lastOp.folder = "R/S"
    /\ lastOp.pinned = <<"R/S/a.md", "R/Sx">>
    /\ settings.pinnedItems = <<"R/Sx">>

\* the path of the entry called name in the folder at parent
JoinPath(parent, name) == IF parent = "" THEN name ELSE parent \o "/" \o name

\* a pinned path after the folder at old has become the folder at new
Moved(item, old, new) ==
    IF item = old THEN new
    ELSE IF IsBelow(item, old) THEN new \o SubSeq(item, Len(old) + 1, Len(item))
    ELSE item

\* C20: renameFolder puts the new path of the folder in the place of its old
\* path, in the pinned path of the folder and at the front of the pinned
\* paths below it; renameFile does so for the pinned path of the file alone;
\* every other pinned path stays, and the order of the list is kept
C20_RenameRewrites ==
    LET new == JoinPath(ParentPath(lastOp.folder), lastOp.arg)
    IN  /\ lastOp.op = "renameFolder" =>
              settings.pinnedItems =
                  [i \in 1..Len(lastOp.pinned) |-> Moved(lastOp.pinned[i], lastOp.folder, new)]
        /\ lastOp.op = "renameFile" =>
              settings.pinnedItems =
                  [i \in 1..Len(lastOp.pinned) |->
                      IF lastOp.pinned[i] = lastOp.folder THEN new ELSE lastOp.pinned[i]]

\* the same for the folders and files that are not at the top of the vault
C20_RenameRewritesBelowTop ==
    ParentPath(lastOp.folder) # "" => C20_RenameRewrites

\* the names of a list are exactly the notes of the folder, each once
ListsNotes(names, folder) ==
    Range(names) = NoteNames(folder) /\ Len(names) = Cardinality(NoteNames(folder))

\* C21: when an undisturbed synchronization of a folder ends, the flat list
\* holds exactly the notes of the folder; with includeSubfolders there is one
\* subsection for each folder below it, at any depth, that holds a note, with
\* exactly the notes of that folder, and without includeSubfolders there is
\* none; includeCanvasFiles and includeOtherFormats have no part in it
C21_ExactScope ==
    (lastOp.op \in Done /\ lastOp.isolated) =>
        LET doc == DocOf(lastOp.folder)
            from == Contributing(lastOp.folder)
        IN  /\ ListsNotes(doc.body.flat, lastOp.folder)
            /\ IF settings.includeSubfolders
               THEN /\ Len(doc.body.subs) = Len(from)
                    /\ \A i \in 1..Len(from) :
                          /\ doc.body.subs[i].label = LastSegment(from[i])
                          /\ ListsNotes(doc.body.subs[i].names, from[i])
               ELSE doc.body.subs = <<>>

C21_Witness ==
    /\ lastOp.op = "updateDone"
    /\ lastOp.isolated
    /\ lastOp.folder = "R"
    /\ ~settings.includeCanvasFiles
    /\ tree["R"] = <<TFile("a", "canvas"), TFile("B", "md"), IndexFile>>
    /\ tree["R/S"] = <<>>
    /\ tree["R/S/T"] = <<TFile("a", "md")>>
    /\ DocOf("R").body.flat = <<"B">>
    /\ Len(DocOf("R").body.subs) = 1

\* the calls of updateIndexFileContent for folder f that wait for vault.read
Waiting(rs, f) ==
    Cardinality({i \in 1..Len(rs) :
                    rs[i].kind = "update" /\ rs[i].folder = f /\ rs[i].pc = "read"})

IsNote(file) == file.extension = "md" /\ file # IndexFile

\* C22: a step that changes the entries of the vault starts, for each folder
\* with an Index.md, one updateIndexFileContent if a note arrived in the
\* folder, created or renamed, and one if an entry left it: a deleted note,
\* or any entry renamed into another folder; it starts no other, and none
\* for an Index.md or a canvas that arrived
C22_EventsStartSync ==
    [][tree' # tree =>
          LET Entries(t, f) == Range(t[f])
              Added(f) == Entries(tree', f) \ Entries(tree, f)
              Removed(f) == Entries(tree, f) \ Entries(tree', f)
              moved == \E g \in DOMAIN tree : Added(g) # {}
          IN  \A f \in DOMAIN tree :
                 Waiting(runs', f) - Waiting(runs, f) =
                    IF ~Holds(tree'[f], IndexFile) THEN 0
                    ELSE (IF \E file \in Added(f) : IsNote(file) THEN 1 ELSE 0)
                         + (IF /\ Removed(f) # {}
                               /\ Added(f) = {}
                               /\ (moved \/ \E file \in Removed(f) : IsNote(file))
                            THEN 1 ELSE 0)]_vars

C22_Witness ==
    /\ Waiting(runs, "R") = 1
    /\ Waiting(runs, "R/S") = 1
    /\ Len(runs) = 2
    /\ events = 3
    /\ tree["R"] = <<IndexFile>>
    /\ tree["R/S"] = <<IndexFile, TFile("a", "md")>>

\* C23: with includeSubfolders, once every run the handlers started has
\* ended, the Index.md of R has a subsection for R/S with the notes of R/S,
\* or none if R/S has no note
C23_AncestorFollows ==
    (runs = <<>> /\ settings.includeSubfolders) =>
        LET subs == DocOf("R").body.subs
        IN  IF NoteNames("R/S") = {} THEN subs = <<>>
            ELSE /\ Len(subs) = 1
                 /\ subs[1].label = "S"
                 /\ ListsNotes(subs[1].names, "R/S")

\* C24: after renameFile or renameFolder of a pinned entry, the path at which
\* the entry is in the vault is pinned
C24_PinFollowsEntry ==
    (lastOp.op \in {"renameFile", "renameFolder"} /\ lastOp.folder \in Range(lastOp.pinned)) =>
        (IF lastOp.folder \in EntryPaths THEN lastOp.folder
         ELSE JoinPath(ParentPath(lastOp.folder), lastOp.arg))
            \in Range(settings.pinnedItems)

\* C25: after deleteFile or deleteFolder whose vault.delete failed, the entry
\* is in the vault and pinnedItems is as it was before the call
C25_FailedDeleteKeepsPins ==
    lastOp.notice \in {"Error deleting file", "Error deleting folder"} =>
        /\ lastOp.folder \in EntryPaths
        /\ settings.pinnedItems = lastOp.pinned

\* C29: while the setting createIndexFile is off, no step creates an Index.md
\* or changes the content of one
C29_DisabledNoWrite ==
    [][(~settings.createIndexFile /\ ~settings'.createIndexFile) => index' = index]_vars

\* the runs that wait for their first storage call of the kind pc
NumAt(rs, pc) == Cardinality({i \in 1..Len(rs) : rs[i].pc = pc})

\* C30: a step of a run starts no run, neither a createIndexFile nor an
\* updateIndexFileContent; a step of the user or of the vault starts at most
\* two; and every run that was started ends
C30_RunsEnd ==
    /\ [][/\ events' = events =>
                /\ NumAt(runs', "read") <= NumAt(runs, "read")
                /\ NumAt(runs', "create") <= NumAt(runs, "create")
                /\ Len(runs') <= Len(runs)
          /\ Len(runs') <= Len(runs) + 2]_vars
    /\ (runs # <<>>) ~> (runs = <<>>)

C30_Witness ==
    /\ lastOp.op = "createDone"
    /\ Holds(tree[lastOp.folder], IndexFile)
    /\ runs = <<>>

\* C27: the history index of a view that a leaf shows is between -1 and the
\* last position of the history, and when it is not -1 the folder displayed
\* is the entry of the history at the index
C27_HistoryTracksFolder ==
    view.leaf =>
        /\ -1 <= view.historyIndex
        /\ view.historyIndex <= Len(view.folderHistory) - 1
        /\ view.historyIndex >= 0 => view.folder = view.folderHistory[view.historyIndex + 1]

\* C28: right after navigateToFolder(g) from another folder, the history is
\* the entries up to the position before the call followed by g, the index
\* is at g, Forward is disabled, and Back is enabled iff the history has more
\* than one entry
C28_NavigateTruncates ==
    (lastOp.op = "navigateToFolder" /\ lastOp.folder # lastOp.view.folder) =>
        /\ view.folderHistory =
              SubSeq(lastOp.view.folderHistory, 1, lastOp.view.historyIndex + 1)
              \o <<lastOp.folder>>
        /\ view.historyIndex = Len(view.folderHistory) - 1
        /\ view.folder = lastOp.folder
        /\ view.forwardDisabled
        /\ ~view.backDisabled <=> Len(view.folderHistory) > 1

C28_Witness ==
    /\ lastOp.op = "navigateToFolder"
    /\ lastOp.view.folderHistory = <<"R", "R/S">>
    /\ lastOp.view.historyIndex = 0
    /\ lastOp.view.folder = "R"
    /\ ~lastOp.view.forwardDisabled
    /\ view.folderHistory = <<"R", "R/Sx">>
    /\ view.historyIndex = 1
    /\ view.forwardDisabled
    /\ ~view.backDisabled

\* the entry is pinned
Pinned(e) == e.path \in Range(settings.pinnedItems)

\* e comes before f in the list s
Before(s, e, f) == \E i, j \in 1..Len(s) : i < j /\ s[i] = e /\ s[j] = f

\* the list is the entries of the folder, each once, the pinned ones first
\* and, among the pinned ones and among the others, the folders first
Grouped(s) ==
    /\ Len(s) = Len(children)
    /\ Range(s) = Range(children)
    /\ \A i, j \in 1..Len(s) :
          i < j => /\ Pinned(s[j]) => Pinned(s[i])
                   /\ (Pinned(s[i]) = Pinned(s[j]) /\ s[j].folder) => s[i].folder

\* a name with the zeros at the front of each of its numbers left out
RECURSIVE Canonical(_, _, _)
Canonical(name, i, front) ==
    IF i > Len(name) THEN ""
    ELSE LET c == CharAt(name, i)
             digit == c \in {"0", "1", "2", "3", "4", "5", "6", "7", "8", "9"}
             more == i < Len(name)
                     /\ CharAt(name, i + 1) \in {"0", "1", "2", "3", "4", "5", "6", "7", "8", "9"}
         IN  IF c = "0" /\ front /\ more
             THEN Canonical(name, i + 1, TRUE)
             ELSE c \o Canonical(name, i + 1, ~digit)

\* the sort key tells the two entries, of the same kind, apart
Distinguishes(by, e, f) ==
    IF by = "filename" THEN Canonical(e.name, 1, TRUE) # Canonical(f.name, 1, TRUE)
    ELSE /\ ~e.folder
         /\ ~f.folder
         /\ (IF by = "created" THEN e.stat.ctime # f.stat.ctime ELSE e.stat.mtime # f.stat.mtime)

\* the step is a click that changes the sort order and keeps the sort key
OrderFlipped ==
    /\ lastOp'.op = "sort"
    /\ view'.currentSortBy = view.currentSortBy
    /\ view'.currentSortOrder # view.currentSortOrder

SameGroup(e, f) == e # f /\ Pinned(e) = Pinned(f) /\ e.folder = f.folder

\* C26: the list is a permutation of the entries with the pinned ones first
\* and the folders first among entries pinned alike, under every sort key and
\* order; and a change of the sort order alone reverses every two entries
\* that are pinned alike and of the same kind
C26_OrderReversesGroups ==
    /\ [](view.leaf => Grouped(view.shown))
    /\ [][OrderFlipped =>
             \A e, f \in Range(children) :
                SameGroup(e, f) => (Before(view'.shown, e, f) <=> Before(view.shown, f, e))]_vars

\* C26, amended: the same, where a change of the sort order alone reverses
\* the two entries if the sort key tells them apart and leaves them in the
\* order of folder.children if it does not
C26_OrderReversesDistinguished ==
    /\ [](view.leaf => Grouped(view.shown))
    /\ [][OrderFlipped =>
             \A e, f \in Range(children) :
                SameGroup(e, f) =>
                   IF Distinguishes(view.currentSortBy, e, f)
                   THEN Before(view'.shown, e, f) <=> Before(view.shown, f, e)
                   ELSE /\ Before(view'.shown, e, f) <=> Before(children, e, f)
                        /\ Before(view.shown, e, f) <=> Before(children, e, f)]_vars

C26_Witness ==
    /\ lastOp.op = "sort"
    /\ view.currentSortBy = "filename"
    /\ view.currentSortOrder = "desc"
    /\ Len(children) = 3
    /\ settings.pinnedItems = <<"R/a2.md">>
    /\ [i \in 1..3 |-> children[i].name] = <<"a2.md", "a10.md", "S">>
    /\ [i \in 1..3 |-> view.shown[i].name] = <<"a2.md", "S", "a10.md">>

====
